---- MODULE Spec2Model ----
(***************************************************************************)
(* A model of the two example applications of the repository:              *)
(*   examples/async_tasks.py      - AsyncComponent and ProgressExtMod      *)
(*   examples/image_classifier.py - KerasApplication and ImageClassifierApp*)
(* SpecAsync runs the first application, SpecClassifier the second.        *)
(***************************************************************************)
EXTENDS Integers, Sequences, FiniteSets, TLC

VARIABLES
    \* ---- async_tasks.py ----
    slider,            \* AsyncComponent.slider, a number in halves, int or float
    select,            \* AsyncComponent.select, <<>> for None, <<v>> for v
    text,              \* AsyncComponent.text
    result,            \* AsyncComponent.result
    completed,         \* progress.completed
    num_tasks,         \* progress.num_tasks
    queue,             \* work items submitted to the executor and not yet started
    running,           \* running[t]: thread t is inside _blocking_task
    pending,           \* finished futures whose _update callback waits on the IOLoop
    submitted,         \* executor.submit calls made so far
    registered,        \* loop.add_future calls made so far
    calls,             \* do_calc calls made so far
    \* ---- image_classifier.py ----
    model,             \* ImageClassifierApp.model, an index into KERAS_APPLICATIONS
    image_file,        \* ImageClassifierApp.image_file
    top_predictions,   \* ImageClassifierApp.top_predictions, <<>> for None, <<list>>
    progress_value,    \* ImageClassifierApp.progress_value
    progress_message,  \* ImageClassifierApp.progress_message
    pc,                \* position of the UI thread inside set_top_predictions
    raised,            \* the last run of set_top_predictions ended by an exception
    lru,               \* keys held by lru_cache(2) of get_model, most recent first
    lastGet,           \* what the last get_model call did: "none", "hit", "miss", "failed"
    constructed        \* applications keras_application has built at least once

asyncVars == <<slider, select, text, result, completed, num_tasks, queue, running,
               pending, submitted, registered, calls>>
classifierVars == <<model, image_file, top_predictions, progress_value,
                    progress_message, pc, raised, lru, lastGet, constructed>>
vars == <<asyncVars, classifierVars>>

(***************************************************************************)
(* Bounds of the model.                                                    *)
(***************************************************************************)
\* do_calc is called at most MaxCalls times.
MaxCalls == 2

\* The user picks among the first MaxApps entries of KERAS_APPLICATIONS.
MaxApps == 5

Range(f) == {f[i] : i \in DOMAIN f}

Min(a, b) == IF a < b THEN a ELSE b

(***************************************************************************)
(* Python values.                                                          *)
(***************************************************************************)
None == <<>>

Some(v) == <<v>>

\* A Python number with one binary digit after the point: halves counts halves,
\* float tells an int from a float (2 and 2.0 print differently).
PyInt(n) == [float |-> FALSE, halves |-> 2 * n]

PyFloat(h) == [float |-> TRUE, halves |-> h]

\* number + int
PyAdd(a, n) == [float |-> a.float, halves |-> a.halves + 2 * n]

DigitChars == <<"0", "1", "2", "3", "4", "5", "6", "7", "8", "9">>

RECURSIVE IntStr(_)
IntStr(n) ==
    IF n < 10 THEN DigitChars[n + 1]
    ELSE IntStr(n \div 10) \o DigitChars[(n % 10) + 1]

\* str(x) of a non-negative int or float
PyStr(x) ==
    IF x.float
    THEN IntStr(x.halves \div 2) \o "." \o (IF x.halves % 2 = 0 THEN "0" ELSE "5")
    ELSE IntStr(x.halves \div 2)

(***************************************************************************)
(* examples/async_tasks.py                                                 *)
(***************************************************************************)
max_workers == 2

NumTasks == 20

BlockingResult == 5

DefaultNumTasks == 10

IOLoopThread == 0

Workers == 1 .. max_workers

Threads == {IOLoopThread} \cup Workers

\* The threads that take work items from the executor's queue.
ExecutorThreadsWithLoop == Threads

ExecutorThreads == Workers

\* Values a user gives the slider (bounds (0, 10)) and the select (range(10)).
SliderValues ==
    {PyInt(0), PyInt(3), PyInt(10), PyFloat(1), PyFloat(5), PyFloat(15), PyFloat(20)}

SelectValues == {0, 3, 9}

\* Arguments do_calc is called with; the START button calls it with the default.
NumTasksArgs == {1, DefaultNumTasks, NumTasks}

\* The IOLoop runs one handler at a time and runs none while it is blocked.
IOLoopFree == ~running[IOLoopThread]

\* AsyncComponent._on_slider_change: the new text
_on_slider_change(sl, se) ==
    LET sel == IF se # None /\ se[1] # 0 THEN se[1] ELSE 0
    IN  PyStr(PyAdd(sl, sel))

\* The user moves the slider; param calls the watcher when the value changed.
SetSlider(v) ==
    /\ IOLoopFree
    /\ v.halves # slider.halves
    /\ slider' = v
    /\ text' = _on_slider_change(v, select)
    /\ UNCHANGED <<select, result, completed, num_tasks, queue, running, pending,
                   submitted, registered, calls>>
    /\ UNCHANGED classifierVars

\* The user picks another object of the select.
SetSelect(s) ==
    /\ IOLoopFree
    /\ Some(s) # select
    /\ select' = Some(s)
    /\ text' = _on_slider_change(slider, Some(s))
    /\ UNCHANGED <<slider, result, completed, num_tasks, queue, running, pending,
                   submitted, registered, calls>>
    /\ UNCHANGED classifierVars

\* AsyncComponent.do_calc(num_tasks=arg)
do_calc(arg) ==
    /\ IOLoopFree
    /\ calls < MaxCalls
    /\ LET n == NumTasks
       IN  /\ num_tasks' = n
           /\ queue' = queue + n
           /\ submitted' = submitted + n
           /\ registered' = registered + n
    /\ calls' = calls + 1
    /\ UNCHANGED <<slider, select, text, result, completed, running, pending>>
    /\ UNCHANGED classifierVars

\* A thread of the executor takes a work item and enters _blocking_task.
StartTask(t) ==
    /\ t \in ExecutorThreads
    /\ ~running[t]
    /\ queue > 0
    /\ queue' = queue - 1
    /\ running' = [running EXCEPT ![t] = TRUE]
    /\ UNCHANGED <<slider, select, text, result, completed, num_tasks, pending,
                   submitted, registered, calls>>
    /\ UNCHANGED classifierVars

\* _blocking_task returns; the future is done and its callback goes to the IOLoop.
FinishTask(t) ==
    /\ running[t]
    /\ running' = [running EXCEPT ![t] = FALSE]
    /\ pending' = pending + 1
    /\ UNCHANGED <<slider, select, text, result, completed, num_tasks, queue,
                   submitted, registered, calls>>
    /\ UNCHANGED classifierVars

\* AsyncComponent._update under @progress.increment()
_update ==
    /\ IOLoopFree
    /\ pending > 0
    /\ pending' = pending - 1
    /\ result' = result + BlockingResult
    /\ completed' = IF completed + 1 = num_tasks THEN 0 ELSE completed + 1
    /\ UNCHANGED <<slider, select, text, num_tasks, queue, running, submitted,
                   registered, calls>>
    /\ UNCHANGED classifierVars

InitAsync ==
    /\ slider = PyInt(2)
    /\ select = None
    /\ text = ""
    /\ result = 0
    /\ completed = 0
    /\ num_tasks = 100
    /\ queue = 0
    /\ running = [t \in Threads |-> FALSE]
    /\ pending = 0
    /\ submitted = 0
    /\ registered = 0
    /\ calls = 0

NextAsync ==
    \/ \E v \in SliderValues : SetSlider(v)
    \/ \E s \in SelectValues : SetSelect(s)
    \/ \E arg \in NumTasksArgs : do_calc(arg)
    \/ \E t \in Threads : StartTask(t)
    \/ \E t \in Threads : FinishTask(t)
    \/ _update

(***************************************************************************)
(* examples/image_classifier.py                                            *)
(***************************************************************************)
KERAS_APPLICATIONS ==
    <<"DenseNet121", "InceptionV3", "MobileNetV2", "NASNetMobile", "NASNetLarge",
      "ResNet50", "VGG19", "Xception">>

DEFAULT_KERAS_APPLICATION_INDEX == 2

lru_maxsize == 2

\* The objects of the model selector.
Applications ==
    {KERAS_APPLICATIONS[i] : i \in 1 .. Min(MaxApps, Len(KERAS_APPLICATIONS))}

\* Values of image_file: None before any upload, then the bytes of the uploaded
\* file: an empty file, two JPEGs a model can classify, a file PIL cannot open
\* and a greyscale JPEG, whose single channel model.predict rejects.
NoImage == "None"

Uploads == {"", "jpgA", "jpgB", "corrupt", "grey"}

\* Python's truth value of image_file
ImageTruthy(img) == img # NoImage /\ img # ""

\* Python's truth value of top_predictions
PredictionsTruthy(top) == top # None /\ top[1] # <<>>

\* decode_predictions_func(model.predict(image))[0]: (id, prediction, probability)
Classify(m, img) == << <<"n_" \o img, img \o " by " \o m, 90>> >>

\* lru_cache: a hit makes the key the most recently used one
CacheTouch(cache, key) == <<key>> \o SelectSeq(cache, LAMBDA k : k # key)

\* lru_cache that never evicts
CacheInsertUnbounded(cache, key) == <<key>> \o cache

\* lru_cache: a miss stores the key and evicts the least recently used one
CacheInsert(cache, key) ==
    SubSeq(<<key>> \o cache, 1, Min(Len(cache) + 1, lru_maxsize))

\* report_progress that takes value for a fraction of 1
report_progress_fraction(message, value) ==
    /\ progress_message' = message
    /\ progress_value' = 100 * value

\* ImageClassifierApp.report_progress
report_progress(message, value) ==
    /\ progress_message' = message
    /\ progress_value' = value

\* ImageClassifierApp.predictions_view: what the view shows
predictions_view ==
    IF progress_value # 0
    THEN [kind |-> "progress", value |-> progress_value, message |-> progress_message]
    ELSE IF PredictionsTruthy(top_predictions)
         THEN [kind |-> "predictions", predictions |-> top_predictions[1]]
         ELSE [kind |-> "empty"]

\* The user picks another model; param starts the watcher set_top_predictions.
SelectModel(m) ==
    /\ pc = "idle"
    /\ m # model
    /\ model' = m
    /\ pc' = "reset"
    /\ UNCHANGED <<image_file, top_predictions, progress_value, progress_message,
                   raised, lru, lastGet, constructed>>
    /\ UNCHANGED asyncVars

\* The user uploads another file; param starts the watcher set_top_predictions.
UploadImage(img) ==
    /\ pc = "idle"
    /\ img # image_file
    /\ image_file' = img
    /\ pc' = "reset"
    /\ UNCHANGED <<model, top_predictions, progress_value, progress_message,
                   raised, lru, lastGet, constructed>>
    /\ UNCHANGED asyncVars

\* set_top_predictions that keeps the old predictions
set_top_predictions_keep ==
    /\ pc = "reset"
    /\ IF ImageTruthy(image_file)
       THEN pc' = "started" /\ UNCHANGED raised
       ELSE pc' = "idle" /\ raised' = FALSE
    /\ UNCHANGED <<model, image_file, top_predictions, progress_value,
                   progress_message, lru, lastGet, constructed>>
    /\ UNCHANGED asyncVars

\* set_top_predictions: top_predictions = None, then the test of image_file and model
set_top_predictions_reset ==
    /\ pc = "reset"
    /\ top_predictions' = None
    /\ IF ImageTruthy(image_file) /\ model \in Applications
       THEN pc' = "started" /\ UNCHANGED raised
       ELSE pc' = "idle" /\ raised' = FALSE
    /\ UNCHANGED <<model, image_file, progress_value, progress_message, lru,
                   lastGet, constructed>>
    /\ UNCHANGED asyncVars

\* set_top_predictions: report_progress("Prediction Started", 1)
set_top_predictions_started ==
    /\ pc = "started"
    /\ report_progress("Prediction Started", 1)
    /\ pc' = "open"
    /\ UNCHANGED <<model, image_file, top_predictions, raised, lru, lastGet,
                   constructed>>
    /\ UNCHANGED asyncVars

\* set_top_predictions: Image.open, which raises on a file that is no image
open_image ==
    /\ pc = "open"
    /\ IF image_file = "corrupt"
       THEN pc' = "idle" /\ raised' = TRUE
       ELSE pc' = "loading" /\ UNCHANGED raised
    /\ UNCHANGED <<model, image_file, top_predictions, progress_value,
                   progress_message, lru, lastGet, constructed>>
    /\ UNCHANGED asyncVars

\* get_top_predictions: report_progress_func("Loading ... model ...", 10)
get_top_predictions_loading ==
    /\ pc = "loading"
    /\ report_progress("Loading " \o model \o " model ... (The first time this is "
                       \o "done it may take several minutes)", 10)
    /\ pc' = "get_model"
    /\ UNCHANGED <<model, image_file, top_predictions, raised, lru, lastGet,
                   constructed>>
    /\ UNCHANGED asyncVars

\* KerasApplication.get_model under @lru_cache(2): a hit returns the cached model,
\* a miss calls keras_application(weights="imagenet"), which may raise (the
\* weights are downloaded); lru_cache stores a result, never an exception.
get_model ==
    /\ pc = "get_model"
    /\ IF model \in Range(lru)
       THEN /\ lru' = CacheTouch(lru, model)
            /\ lastGet' = "hit"
            /\ pc' = "processing"
            /\ UNCHANGED <<raised, constructed>>
       ELSE \/ /\ lru' = CacheInsert(lru, model)
               /\ lastGet' = "miss"
               /\ constructed' = constructed \cup {model}
               /\ pc' = "processing"
               /\ UNCHANGED raised
            \/ /\ lastGet' = "failed"
               /\ pc' = "idle"
               /\ raised' = TRUE
               /\ UNCHANGED <<lru, constructed>>
    /\ UNCHANGED <<model, image_file, top_predictions, progress_value,
                   progress_message>>
    /\ UNCHANGED asyncVars

\* get_top_predictions: report_progress_func("Processing image ... ", 67)
get_top_predictions_processing ==
    /\ pc = "processing"
    /\ report_progress("Processing image ... ", 67)
    /\ pc' = "classifying"
    /\ UNCHANGED <<model, image_file, top_predictions, raised, lru, lastGet,
                   constructed>>
    /\ UNCHANGED asyncVars

\* get_top_predictions: report_progress_func("Classifying image with ...", 85)
get_top_predictions_classifying ==
    /\ pc = "classifying"
    /\ report_progress("Classifying image with '" \o model \o "'... ", 85)
    /\ pc' = "predict"
    /\ UNCHANGED <<model, image_file, top_predictions, raised, lru, lastGet,
                   constructed>>
    /\ UNCHANGED asyncVars

\* get_top_predictions: model.predict and decode_predictions_func
predict ==
    /\ pc = "predict"
    /\ IF image_file = "grey"
       THEN pc' = "idle" /\ raised' = TRUE
       ELSE pc' = "done" /\ UNCHANGED raised
    /\ UNCHANGED <<model, image_file, top_predictions, progress_value,
                   progress_message, lru, lastGet, constructed>>
    /\ UNCHANGED asyncVars

\* get_top_predictions that returns without the last report
get_top_predictions_silent ==
    /\ pc = "done"
    /\ pc' = "assign"
    /\ UNCHANGED <<model, image_file, top_predictions, progress_value,
                   progress_message, raised, lru, lastGet, constructed>>
    /\ UNCHANGED asyncVars

\* get_top_predictions: report_progress_func("", 0)
get_top_predictions_done ==
    /\ pc = "done"
    /\ report_progress("", 0)
    /\ pc' = "assign"
    /\ UNCHANGED <<model, image_file, top_predictions, raised, lru, lastGet,
                   constructed>>
    /\ UNCHANGED asyncVars

\* set_top_predictions: self.top_predictions = the list get_top_predictions returned
set_top_predictions_assign ==
    /\ pc = "assign"
    /\ top_predictions' = Some(Classify(model, image_file))
    /\ pc' = "idle"
    /\ raised' = FALSE
    /\ UNCHANGED <<model, image_file, progress_value, progress_message, lru,
                   lastGet, constructed>>
    /\ UNCHANGED asyncVars

\* ImageClassifierApp.__init__ has run: model is the default application and the
\* watcher it started found no image.
InitClassifier ==
    /\ model = KERAS_APPLICATIONS[DEFAULT_KERAS_APPLICATION_INDEX + 1]
    /\ image_file = NoImage
    /\ top_predictions = None
    /\ progress_value = 0
    /\ progress_message = ""
    /\ pc = "idle"
    /\ raised = FALSE
    /\ lru = <<>>
    /\ lastGet = "none"
    /\ constructed = {}

NextClassifier ==
    \/ \E m \in Applications : SelectModel(m)
    \/ \E img \in Uploads : UploadImage(img)
    \/ set_top_predictions_reset
    \/ set_top_predictions_started
    \/ open_image
    \/ get_top_predictions_loading
    \/ get_model
    \/ get_top_predictions_processing
    \/ get_top_predictions_classifying
    \/ predict
    \/ get_top_predictions_done
    \/ set_top_predictions_assign

(***************************************************************************)
(* Specifications.                                                         *)
(***************************************************************************)
Init == InitAsync /\ InitClassifier

SpecAsync == Init /\ [][NextAsync]_vars

SpecClassifier == Init /\ [][NextClassifier]_vars

Next == NextAsync \/ NextClassifier

Spec == Init /\ [][Next]_vars

(***************************************************************************)
(* Properties of examples/async_tasks.py, checked under SpecAsync.         *)
(***************************************************************************)

\* C1: the application stays responsive while background work is in flight.
\* Whatever number of blocking tasks are queued or running, the IOLoop thread is
\* never inside _blocking_task (only the executor's workers run it), a change of
\* the slider can be handled, and every change of slider or select sets text to
\* str(slider + select), select counting as 0 when it is unset or 0.
C1_Responsive ==
    /\ [](~running[IOLoopThread])
    /\ [](\A t \in Threads : running[t] => t \in 1 .. max_workers)
    /\ [](\E v \in SliderValues : ENABLED SetSlider(v))
    /\ [][(slider' # slider \/ select' # select) =>
            text' = PyStr(PyAdd(slider', IF select' = None THEN 0 ELSE select'[1]))]_vars

\* C1 witness: tasks are queued, both workers are inside _blocking_task, callbacks
\* wait on the IOLoop, and text shows the handled change 7.5 + 3.
C1_Witness ==
    /\ queue > 0
    /\ \A w \in Workers : running[w]
    /\ pending > 0
    /\ result > 0
    /\ slider = PyFloat(15)
    /\ select = Some(3)
    /\ text = "10.5"

\* C2: do_calc(num_tasks) runs the background task num_tasks times: a call with
\* argument n sets progress.num_tasks to n, submits exactly n executions of
\* _blocking_task and registers one _update callback per submitted future.
C2_RunsNumTasksTimes ==
    [][\A n \in NumTasksArgs :
         do_calc(n) =>
            /\ num_tasks' = n
            /\ submitted' = submitted + n
            /\ registered' - registered = submitted' - submitted]_vars

(***************************************************************************)
(* Properties of examples/image_classifier.py, checked under               *)
(* SpecClassifier.                                                         *)
(***************************************************************************)

\* C3: top_predictions always belongs to the current selection. When
\* set_top_predictions has run to completion, top_predictions is the result of
\* get_top_predictions for the current model and image_file if both are set and
\* None if image_file is empty; and once the watcher has passed its first
\* statement, top_predictions never holds predictions of an earlier model or image.
C3_CurrentSelection ==
    /\ (pc = "idle" /\ ~raised) =>
          IF image_file \notin {NoImage, ""}
          THEN top_predictions = <<Classify(model, image_file)>>
          ELSE top_predictions = None
    /\ (pc # "reset" /\ top_predictions # None) =>
          top_predictions = <<Classify(model, image_file)>>

\* C3 witness: after the model and the image were both changed, and more than one
\* model has predicted, the predictions are those of the current pair.
C3_Witness ==
    /\ pc = "idle"
    /\ model = "DenseNet121"
    /\ image_file = "jpgB"
    /\ Cardinality(constructed) >= 2
    /\ top_predictions = <<Classify("DenseNet121", "jpgB")>>

\* C4: progress_value is an integer between 0 and 100 in every reachable state,
\* the intermediate states of a prediction included.
C4_ProgressInRange == progress_value \in 0 .. 100

\* C4 witness: a prediction is at its last report before model.predict.
C4_Witness == pc = "predict" /\ progress_value = 85

\* C5: predictions_view shows the progress column whenever progress_value is
\* non-zero, the predictions column only when progress_value is 0 and
\* top_predictions is non-empty, and an empty pane otherwise; and a non-None
\* top_predictions implies progress_value = 0.
C5_PredictionsOrProgress ==
    /\ (predictions_view.kind = "progress") <=> (progress_value # 0)
    /\ (predictions_view.kind = "predictions") <=>
          (progress_value = 0 /\ top_predictions # None /\ Len(top_predictions[1]) > 0)
    /\ (predictions_view.kind = "empty") <=>
          (progress_value = 0 /\ (top_predictions = None \/ top_predictions[1] = <<>>))
    /\ top_predictions # None => progress_value = 0

\* C5 witness: a finished prediction is shown, after an earlier one for which the
\* progress column was shown.
C5_Witness ==
    /\ pc = "idle"
    /\ top_predictions # None
    /\ predictions_view.kind = "predictions"
    /\ image_file = "jpgB"

\* C6 as stated: a model is constructed only on the first get_model call for its
\* application; every later call for it returns the model already constructed.
C6_LoadedOnce == [][(get_model /\ model \in constructed) => lastGet' = "hit"]_vars

\* C6 as amended: get_model keeps the models of the lru_maxsize = 2 most recently
\* used applications. A call constructs the model exactly when the application is
\* not among the cached ones, a call for a cached application returns the cached
\* model and evicts nothing, and a successful construction puts the application
\* first and leaves at most two cached.
C6_LoadedUnlessEvicted ==
    [][get_model =>
         /\ (lastGet' = "hit") <=> (\E i \in 1 .. Len(lru) : lru[i] = model)
         /\ lastGet' = "hit" => Range(lru') = Range(lru)
         /\ lastGet' = "miss" => lru'[1] = model /\ Range(lru') \subseteq Range(lru) \cup {model}
         /\ lastGet' = "failed" => lru' = lru
         /\ Len(lru') <= 2]_vars

\* C6 witness: three applications were constructed, so one was evicted, and the
\* last call found its application among the two cached ones.
C6_Witness ==
    /\ lastGet = "hit"
    /\ Len(lru) = 2
    /\ Cardinality(constructed) >= 3

====
